---- MODULE Spec2Model ----
(***************************************************************************)
(* Model of slist_template.h: an intrusive, singly linked FIFO list over   *)
(* caller-owned nodes.  A node is identified by its address (here a number *)
(* in Nodes); a list is a pointer to its head node.  The operations are    *)
(* SLIST_add_T (SLIST_ADD_NODE) and the traversal SLIST_FOR_EACH_NODE_PTR. *)
(***************************************************************************)
EXTENDS Integers, Sequences, FiniteSets, TLC

\* Size of the pool of caller-owned nodes.
MaxNodes == 3

\* The null pointer; node addresses are 1..MaxNodes.
NULL == 0

Nodes == 1..MaxNodes

\* Values of a SLIST_NODE(T)* variable.
Ptr == Nodes \cup {NULL}

\* The list handles of the caller.
Lists == {"A", "B"}

\* Payload values.
Data == {0, 1}

VARIABLES
    head,         \* head[l]: the list handle l (SLIST_CREATE_LIST)
    next,         \* next[n]: the next field of node n
    data,         \* data[n]: the data field of node n
    list,         \* a copy of handle "A" (the parameter of print_list)
    hasList,      \* whether that copy has been taken
    pc,           \* "idle", or the position inside a traversal
    node_,        \* the loop variable of SLIST_FOR_EACH_NODE_PTR
    src,          \* the handle the traversal goes through
    visited,      \* the nodes the traversal's body has run on, in order
    prevVisited,  \* what the previous traversal visited
    lastOp,       \* the last finished operation: the handle of a traversal,
                  \* or which case of SLIST_add the call was
    order,        \* order[l]: the nodes given to SLIST_add on l, first calls only
    repeated      \* whether some SLIST_add was given a node a second time

vars == <<head, next, data, list, hasList, pc, node_, src, visited,
          prevVisited, lastOp, order, repeated>>

Range(s) == {s[i] : i \in 1..Len(s)}

NoDup(s) == \A i, j \in 1..Len(s) : s[i] = s[j] => i = j

----------------------------------------------------------------------------
(* SLIST_add_T *)

\* Following next links from p, as the traversal does, acc visited so far;
\* ends is FALSE when more nodes are visited than exist.
RECURSIVE Follow(_, _, _)
Follow(p, nx, acc) ==
    IF p = NULL THEN [seq |-> acc, ends |-> TRUE]
    ELSE IF Len(acc) > MaxNodes THEN [seq |-> acc, ends |-> FALSE]
    ELSE Follow(nx[p], nx, Append(acc, p))

\* The node sequence of the chain a pointer h leads to.
Chain(h, nx) == Follow(h, nx, <<>>)

\* Variant of Walk without the identity test (curr == node).
RECURSIVE Walk_NoIdCheck(_, _, _, _)
Walk_NoIdCheck(curr, nx, node, k) ==
    IF nx[curr] = NULL THEN [curr |-> curr, out |-> "tail", steps |-> k]
    ELSE IF k > MaxNodes THEN [curr |-> curr, out |-> "spin", steps |-> k]
    ELSE Walk_NoIdCheck(nx[curr], nx, node, k + 1)

\* The loop of SLIST_add_T from curr on, k nodes visited so far:
\*   while (curr->next != NULL) { if (curr == node) return; curr = curr->next; }
\* out is "tail" when the loop ends, "return" on the early return and "spin"
\* when the loop has visited more nodes than exist (it never ends).
RECURSIVE Walk(_, _, _, _)
Walk(curr, nx, node, k) ==
    IF nx[curr] = NULL THEN [curr |-> curr, out |-> "tail", steps |-> k]
    ELSE IF curr = node THEN [curr |-> curr, out |-> "return", steps |-> k]
    ELSE IF k > MaxNodes THEN [curr |-> curr, out |-> "spin", steps |-> k]
    ELSE Walk(nx[curr], nx, node, k + 1)

\* Variant of AddResult that pushes the node at the front of the list.
AddResult_Lifo(h, nx, node) ==
    [head |-> node, next |-> [nx EXCEPT ![node] = h], out |-> "tail"]

\* Variant of AddResult without the closing node->next = NULL.
AddResult_NoFinalNull(h, nx, node) ==
    IF h = NULL
    THEN [head |-> node, next |-> [nx EXCEPT ![node] = NULL], out |-> "tail"]
    ELSE LET w == Walk(h, nx, node, 1) IN
         IF w.out = "tail"
         THEN [head |-> h, next |-> [nx EXCEPT ![w.curr] = node], out |-> "tail"]
         ELSE [head |-> h, next |-> nx, out |-> w.out]

\* Variant of AddResult that links the node behind the head without walking.
AddResult_NoWalk(h, nx, node) ==
    IF h = NULL
    THEN [head |-> node, next |-> [nx EXCEPT ![node] = NULL], out |-> "tail"]
    ELSE [head |-> h,
          next |-> [[nx EXCEPT ![h] = node] EXCEPT ![node] = NULL],
          out  |-> "tail"]

\* Variant of AddResult that leaves the next field of the first node of a
\* list as it was.
AddResult_NoNullOnEmpty(h, nx, node) ==
    IF h = NULL
    THEN [head |-> node, next |-> nx, out |-> "tail"]
    ELSE LET w == Walk(h, nx, node, 1) IN
         IF w.out = "tail"
         THEN [head |-> h,
               next |-> [[nx EXCEPT ![w.curr] = node] EXCEPT ![node] = NULL],
               out  |-> "tail"]
         ELSE [head |-> h, next |-> nx, out |-> w.out]

\* The body of SLIST_add_T on a list whose handle holds h.
AddResult(h, nx, node) ==
    IF h = NULL
    THEN [head |-> node, next |-> [nx EXCEPT ![node] = NULL], out |-> "tail"]
    ELSE LET w == Walk(h, nx, node, 1) IN
         IF w.out = "tail"
         THEN [head |-> h,
               next |-> [[nx EXCEPT ![w.curr] = node] EXCEPT ![node] = NULL],
               out  |-> "tail"]
         ELSE [head |-> h, next |-> nx, out |-> w.out]

\* What the caller did with this call, from the history of its calls: a node
\* not given to l before, the node given last, or an earlier one.
AddKind(l, n) ==
    IF n \notin Range(order[l]) THEN "add"
    ELSE IF n = order[l][Len(order[l])] THEN "readd-tail"
    ELSE "readd-member"

\* SLIST_ADD_NODE(T, l, n), called outside a traversal.
SLIST_add(l, n) ==
    /\ pc = "idle"
    /\ LET r == AddResult(head[l], next, n) IN
         /\ head' = [head EXCEPT ![l] = r.head]
         /\ next' = r.next
         /\ pc' = IF r.out = "spin" THEN "hung" ELSE "idle"
    /\ order' = [order EXCEPT ![l] =
                    IF n \in Range(@) THEN @ ELSE Append(@, n)]
    /\ repeated' = (repeated \/ n \in Range(order[l]))
    /\ lastOp' = AddKind(l, n)
    /\ prevVisited' = <<>>
    /\ UNCHANGED <<data, list, hasList, node_, src, visited>>

----------------------------------------------------------------------------
(* Handles *)

\* print_list(list): the handle is passed by value.  One copy is taken, at
\* any moment between two operations.
CopyHandle ==
    /\ pc = "idle"
    /\ ~hasList
    /\ list' = head["A"]
    /\ hasList' = TRUE
    /\ UNCHANGED <<head, next, data, pc, node_, src, visited,
                   prevVisited, lastOp, order, repeated>>

\* The pointer a handle holds.
HandleValue(s) == IF s = "list" THEN list ELSE head[s]

----------------------------------------------------------------------------
(* SLIST_FOR_EACH_NODE_PTR *)

\* for (SLIST_NODE(T)* node_ = head_; ...
TravBegin(s) ==
    /\ pc = "idle"
    /\ s = "list" => hasList
    /\ pc' = "loop"
    /\ node_' = HandleValue(s)
    /\ src' = s
    /\ visited' = <<>>
    /\ UNCHANGED <<head, next, data, list, hasList,
                   prevVisited, lastOp, order, repeated>>

\* Variant of ForStep whose body works on a copy of the node.
ForStep_ByValue(newData) ==
    /\ pc = "loop"
    /\ node_ # NULL
    /\ Len(visited) <= MaxNodes
    /\ visited' = Append(visited, node_)
    /\ node_' = next[node_]
    /\ UNCHANGED <<head, next, data, list, hasList, pc, src,
                   prevVisited, lastOp, order, repeated>>

\* Variant of ForStep that unlinks each node it has visited.
ForStep_Unlink(newData) ==
    /\ pc = "loop"
    /\ node_ # NULL
    /\ Len(visited) <= MaxNodes
    /\ visited' = Append(visited, node_)
    /\ data' = [data EXCEPT ![node_] = newData]
    /\ node_' = next[node_]
    /\ next' = [next EXCEPT ![node_] = NULL]
    /\ UNCHANGED <<head, list, hasList, pc, src,
                   prevVisited, lastOp, order, repeated>>

\* One iteration whose body leaves the node's data as newData, then
\* node_ = node_->next.
ForStep(newData) ==
    /\ pc = "loop"
    /\ node_ # NULL
    /\ Len(visited) <= MaxNodes
    /\ visited' = Append(visited, node_)
    /\ data' = [data EXCEPT ![node_] = newData]
    /\ node_' = next[node_]
    /\ UNCHANGED <<head, next, list, hasList, pc, src,
                   prevVisited, lastOp, order, repeated>>

\* An iteration whose body only reads node_->data.
TravRead == ForStep(data[node_])

\* An iteration whose body does node_->data = v.
TravWrite(v) == ForStep(v)

\* The loop condition node_ != NULL fails.
TravExit ==
    /\ pc = "loop"
    /\ node_ = NULL
    /\ pc' = "done"
    /\ UNCHANGED <<head, next, data, list, hasList, node_, src, visited,
                   prevVisited, lastOp, order, repeated>>

\* The statement after the loop: node_ is out of scope.
TravEnd ==
    /\ pc = "done"
    /\ pc' = "idle"
    /\ prevVisited' = visited
    /\ lastOp' = src
    /\ visited' = <<>>
    /\ src' = "none"
    /\ UNCHANGED <<head, next, data, list, hasList, node_, order, repeated>>

----------------------------------------------------------------------------
(* Specification: one list, "A", its copy, and a pool of nodes *)

\* Variant of Init in which SLIST_CREATE_LIST leaves the handle indeterminate.
Init_Uninit ==
    /\ head \in [Lists -> Ptr]
    /\ next \in [Nodes -> Ptr]
    /\ data = [n \in Nodes |-> 0]
    /\ list = NULL
    /\ hasList = FALSE
    /\ pc = "idle"
    /\ node_ = NULL
    /\ src = "none"
    /\ visited = <<>>
    /\ prevVisited = <<>>
    /\ lastOp = "none"
    /\ order = [l \in Lists |-> <<>>]
    /\ repeated = FALSE

\* SLIST_CREATE_LIST sets the handle to NULL; a node declared by the caller
\* has an indeterminate next field.
Init ==
    /\ head = [l \in Lists |-> NULL]
    /\ next \in [Nodes -> Ptr]
    /\ data = [n \in Nodes |-> 0]
    /\ list = NULL
    /\ hasList = FALSE
    /\ pc = "idle"
    /\ node_ = NULL
    /\ src = "none"
    /\ visited = <<>>
    /\ prevVisited = <<>>
    /\ lastOp = "none"
    /\ order = [l \in Lists |-> <<>>]
    /\ repeated = FALSE

Next ==
    \/ \E n \in Nodes : SLIST_add("A", n)
    \/ CopyHandle
    \/ \E s \in {"A", "list"} : TravBegin(s)
    \/ TravRead
    \/ \E v \in Data : TravWrite(v)
    \/ TravExit
    \/ TravEnd

Spec == Init /\ [][Next]_vars

----------------------------------------------------------------------------
(* Properties of list "A" *)

\* The chain of list "A".
ChainA == Chain(head["A"], next)

\* n is the last node of the chain of "A".
IsTail(n) ==
    /\ ChainA.ends
    /\ ChainA.seq # <<>>
    /\ ChainA.seq[Len(ChainA.seq)] = n

\* n is a node of the chain of "A".
IsMember(n) == n \in Range(ChainA.seq)

\* C1: after any number of insertions of pairwise distinct nodes into a fresh
\* list, a finished traversal has visited exactly the inserted nodes, in the
\* order of insertion, and as many nodes as were inserted.
C1_FifoTraversal ==
    (pc = "done" /\ src = "A" /\ ~repeated)
        => (visited = order["A"] /\ Len(visited) = Len(order["A"]))

C1_Witness ==
    /\ pc = "done" /\ src = "A" /\ ~repeated
    /\ Len(order["A"]) = MaxNodes
    /\ visited = order["A"]

\* C2: SLIST_add of the node that is the current tail of the list (the sole
\* node included) changes nothing: the head, every next field and so the
\* chain are as before, and the tail's next is still NULL.
C2_ReAddTailNoEffect ==
    [][\A n \in Nodes :
         (SLIST_add("A", n) /\ IsTail(n))
             => /\ head' = head
                /\ next' = next
                /\ next'[n] = NULL
                /\ Chain(head'["A"], next') = ChainA]_vars

C2_Witness ==
    /\ pc = "idle" /\ lastOp = "readd-tail"
    /\ Len(order["A"]) >= 2
    /\ ChainA.seq = order["A"]
    /\ next[order["A"][Len(order["A"])]] = NULL

\* C3 as stated: SLIST_add of the current tail of a non-empty list returns
\* with tail.next = tail, so the chain never reaches NULL.
C3_TailReAddSelfLinks ==
    [][\A n \in Nodes :
         (SLIST_add("A", n) /\ IsTail(n))
             => /\ next'[n] = n
                /\ ~Chain(head'["A"], next').ends]_vars

\* C3 as amended: after SLIST_add of the current tail the tail's next is NULL,
\* not the tail itself (the closing node->next = NULL undoes the link
\* curr->next = node), the chain still ends, and a traversal started
\* afterwards ends having visited the list's nodes.
C3_TailReAddKeepsNull ==
    lastOp = "readd-tail" =>
        LET t == order["A"][Len(order["A"])] IN
        /\ next[t] = NULL
        /\ next[t] # t
        /\ ChainA.ends
        /\ pc # "hung"
        /\ pc = "loop" => Len(visited) <= Len(order["A"])
        /\ (pc = "done" /\ src = "A") => visited = order["A"]

C3_Witness ==
    /\ lastOp = "readd-tail"
    /\ pc = "done" /\ src = "A"
    /\ Len(visited) >= 2

\* C4: SLIST_add of a node that is in the list but is not its tail changes
\* neither the head nor any next field, so the chain is as before.
C4_ReAddMemberNoEffect ==
    [][\A n \in Nodes :
         (SLIST_add("A", n) /\ IsMember(n) /\ ~IsTail(n))
             => /\ head' = head
                /\ next' = next
                /\ Chain(head'["A"], next') = ChainA]_vars

C4_Witness ==
    /\ pc = "idle" /\ lastOp = "readd-member"
    /\ Len(order["A"]) = MaxNodes
    /\ ChainA.seq = order["A"]

\* C5: as long as only pairwise distinct nodes have been inserted, the chain
\* from the head reaches NULL after exactly as many nodes as were inserted
\* and holds no node twice.
C5_AcyclicUnique ==
    ~repeated =>
        /\ ChainA.ends
        /\ Len(ChainA.seq) = Len(order["A"])
        /\ NoDup(ChainA.seq)

C5_Witness ==
    /\ ~repeated
    /\ Len(order["A"]) = MaxNodes
    /\ ChainA.ends
    /\ Len(ChainA.seq) = MaxNodes

\* C6: a list nothing has been inserted into has a NULL head, and a traversal
\* of it runs its body on no node.
C6_FreshListEmpty ==
    order["A"] = <<>> =>
        /\ head["A"] = NULL
        /\ (pc \in {"loop", "done"} /\ src = "A")
               => (visited = <<>> /\ node_ = NULL)

C6_Witness ==
    /\ order["A"] = <<>>
    /\ pc = "done" /\ src = "A"
    /\ visited = <<>>

\* C7: whatever nodes have been inserted, repeated ones included, a traversal
\* has reached NULL once it has visited as many nodes as the list has
\* members, never more, and the loop of the next SLIST_add, for any node,
\* ends after visiting at most that many nodes.
C7_Bounded ==
    LET count == Cardinality(Range(order["A"])) IN
    /\ pc # "hung"
    /\ pc = "loop" =>
           /\ Len(visited) <= count
           /\ Len(visited) = count => node_ = NULL
    /\ pc = "done" => Len(visited) <= count
    /\ head["A"] # NULL =>
           \A n \in Nodes :
               LET w == Walk(head["A"], next, n, 1) IN
               /\ w.out # "spin"
               /\ w.steps <= count

C7_Witness ==
    /\ repeated
    /\ pc = "done" /\ src = "A"
    /\ Len(visited) = MaxNodes
    /\ Walk(head["A"], next, visited[1], 1).out = "return"
    /\ Walk(head["A"], next, visited[MaxNodes], 1).steps = MaxNodes

\* C8 as stated: two traversals with no insertion between them, one through
\* the handle and one through a copy of it taken at any moment, visit the
\* same nodes.
C8_AnyCopyAliases ==
    (hasList /\ pc = "done" /\ lastOp \in {"A", "list"} /\ lastOp # src)
        => visited = prevVisited

\* C8 as amended: the same, for a copy taken while the list was not empty.
C8_NonEmptyCopyAliases ==
    (hasList /\ list # NULL /\ pc = "done"
        /\ lastOp \in {"A", "list"} /\ lastOp # src)
        => visited = prevVisited

C8_Witness ==
    /\ hasList /\ list # NULL
    /\ pc = "done" /\ src = "list" /\ lastOp = "A"
    /\ Len(visited) = MaxNodes
    /\ visited = prevVisited

C10_TraversalReadOnly ==
    [][/\ pc \in {"loop", "done"} => (head' = head /\ next' = next)
       /\ pc' = "loop" => (head' = head /\ next' = next)
       /\ (pc' = "done" /\ lastOp' = src') => visited' = prevVisited']_vars

C10_Witness ==
    /\ pc = "done" /\ lastOp = src
    /\ Len(visited) >= 2
    /\ visited = prevVisited

\* C11: SLIST_add of a node that is not in the list changes the head only
\* when the list was empty; on a non-empty list the head stays, and of the
\* nodes already in the list exactly one gets another next field: the
\* previous tail, whose next becomes the added node, whose next is NULL.
C11_AddChangesOnlyTail ==
    [][\A n \in Nodes :
         (SLIST_add("A", n) /\ ~IsMember(n))
             => IF head["A"] = NULL
                THEN /\ head'["A"] = n
                     /\ next'[n] = NULL
                     /\ \A m \in Nodes \ {n} : next'[m] = next[m]
                ELSE LET t == ChainA.seq[Len(ChainA.seq)] IN
                     /\ head' = head
                     /\ next[t] = NULL
                     /\ next'[t] = n
                     /\ next'[n] = NULL
                     /\ {m \in Range(ChainA.seq) : next'[m] # next[m]} = {t}
                     /\ \A m \in Nodes \ {t, n} : next'[m] = next[m]]_vars

C11_Witness ==
    /\ pc = "idle" /\ lastOp = "add"
    /\ Len(order["A"]) = MaxNodes
    /\ ChainA.seq = order["A"]
    /\ next[order["A"][MaxNodes - 1]] = order["A"][MaxNodes]

\* C12: SLIST_add of any node to an empty list makes that node the head with
\* next = NULL, whatever its next field held before, so the traversal that
\* follows visits that node and no other.
C12_FirstNodeIsHead ==
    [][/\ \A n \in Nodes :
              (SLIST_add("A", n) /\ head["A"] = NULL)
                  => /\ head'["A"] = n
                     /\ next'[n] = NULL
                     /\ Chain(head'["A"], next') = [seq |-> <<n>>, ends |-> TRUE]
       /\ (pc' = "done" /\ src' = "A" /\ Len(order'["A"]) = 1)
              => visited' = order'["A"]]_vars

C12_Witness ==
    /\ pc = "done" /\ src = "A" /\ lastOp = "add"
    /\ Len(order["A"]) = 1
    /\ visited = <<head["A"]>>
    /\ \E m \in Nodes : next[m] = head["A"]

----------------------------------------------------------------------------
(* Specification: two lists, "A" and "B", over one pool of nodes *)

\* Any node may be given to either list, also a node the list or the other
\* list already holds.
NextMulti ==
    \E l \in Lists : \E n \in Nodes : SLIST_add(l, n)

SpecMulti == Init /\ [][NextMulti]_vars

\* The chain of list "B".
ChainB == Chain(head["B"], next)

\* C13: whatever nodes are given to whichever list, repeated and shared ones
\* included, the chain from every head reaches NULL without holding a node
\* twice, and no SLIST_add loops for ever.
C13_AlwaysAcyclic ==
    /\ \A l \in Lists :
           /\ Chain(head[l], next).ends
           /\ NoDup(Chain(head[l], next).seq)
    /\ pc # "hung"

C13_Witness ==
    /\ repeated
    /\ Len(order["A"]) = MaxNodes
    /\ Len(order["B"]) = MaxNodes
    /\ Len(ChainA.seq) >= 2
    /\ Len(ChainB.seq) >= 2
    /\ Range(ChainA.seq) \cap Range(ChainB.seq) # {}

\* C14: the head and the next fields SLIST_add leaves, for a node that is not
\* in the list, are those it would leave had the node's next field held any
\* other value before the call.
C14_PriorNextIrrelevant ==
    [][\A n \in Nodes :
         (SLIST_add("A", n) /\ ~IsMember(n))
             => \A g \in Ptr :
                    LET other == AddResult(head["A"], [next EXCEPT ![n] = g], n)
                    IN  /\ other.head = head'["A"]
                        /\ other.next = next'
                        /\ other.out = "tail"]_vars

C14_Witness ==
    /\ pc = "idle" /\ lastOp = "add"
    /\ Len(order["A"]) = MaxNodes - 1
    /\ ChainA.seq = order["A"]
    /\ \E m \in Nodes \ Range(order["A"]) : next[m] = m

\* C15: when the chains of "A" and "B" share no node and n is in "A" but is
\* not its tail, SLIST_add of n to "B" sets n's next to NULL: the chain of
\* "B" becomes its old chain followed by n, and the chain of "A" becomes its
\* old chain up to and including n.
C15_CrossAddCutsOther ==
    [][LET a == ChainA.seq
           b == ChainB.seq
       IN  \A k \in 1..(Len(a) - 1) :
               (/\ ChainA.ends
                /\ ChainB.ends
                /\ Range(a) \cap Range(b) = {}
                /\ SLIST_add("B", a[k]))
                   => /\ next'[a[k]] = NULL
                      /\ Chain(head'["B"], next') =
                             [seq |-> Append(b, a[k]), ends |-> TRUE]
                      /\ Chain(head'["A"], next') =
                             [seq |-> SubSeq(a, 1, k), ends |-> TRUE]]_vars

C15_Witness ==
    /\ pc = "idle" /\ lastOp = "add"
    /\ Len(ChainB.seq) >= 2
    /\ Len(ChainA.seq) >= 1
    /\ Len(ChainA.seq) < Len(order["A"])
    /\ ChainA.seq = SubSeq(order["A"], 1, Len(ChainA.seq))
    /\ ChainA.seq[Len(ChainA.seq)] = ChainB.seq[Len(ChainB.seq)]
    /\ ChainB.seq = order["B"]

====
